---------------------------- MODULE Spec2Model ----------------------------
(***************************************************************************)
(* Model of the Alice & Bob resource estimator (cat qubits, repetition     *)
(* code, Toffoli magic-state factories).                                   *)
(*                                                                         *)
(* The parts of the program are modelled each with its own specification   *)
(* over the shared variable tuple:                                         *)
(*   SpecFactories   : ToffoliBuilder::find_factories (src/factories.rs)   *)
(*   SpecCounter     : impl Backend for LogicalCounts (src/counter.rs)     *)
(*   SpecCounterEdge : the same, from tallies at the top of their type     *)
(*   SpecDriver      : the same, driven by an interpreter that releases    *)
(*                     only the qubits it holds                            *)
(*   SpecRange       : CodeParameterRange             (src/code.rs)        *)
(*   SpecCmp         : RepetitionCode::code_parameter_cmp (src/code.rs)    *)
(*   SpecEstimates   : AliceAndBobEstimates           (src/estimates.rs)   *)
(*                                                                         *)
(* Number representation.  f64 values that the program only ever compares  *)
(* or divides are kept as exact decimals:                                  *)
(*   - an error probability is [mant, exp] = mant/100 * 10^exp with        *)
(*     100 <= mant <= 999 (three significant digits, as in the catalog);   *)
(*   - alpha_sq of a factory is in hundredths, acceptance_probability in   *)
(*     units of 1e-5;                                                      *)
(*   - alpha_sq of a CodeParameter is in tenths.                           *)
(***************************************************************************)
EXTENDS Integers, Sequences, FiniteSets, TLC

VARIABLES
    ff_target,      \* find_factories: output_error_rate of the last call
    ff_result,      \* find_factories: outcome of the last call
    qubit_count,    \* LogicalCounts.qubit_count
    cx_count,       \* LogicalCounts.cx_count
    ccx_count,      \* LogicalCounts.ccx_count
    free_list,      \* LogicalCounts.free_list (Vec: push/pop at the end)
    last,           \* last Backend operation and the value it returned
    scenario,       \* progress of the run along: allocate x3, release(1), allocate
    phase,          \* "accumulate" (driven by the interpreter) or "frozen"
    r_lower,        \* CodeParameterRange: the lower bound it was built from
    r_distance,     \* CodeParameterRange.distance
    r_alpha_sq,     \* CodeParameterRange.alpha_sq
    r_item,         \* value returned by the last call of next
    r_prev,         \* value returned by the call before that
    r_count,        \* number of elements yielded so far
    allocated,      \* driver: the qubit indices it holds (allocated, not released)
    max_live,       \* driver: most qubits it has held at the same time so far
    e_result,       \* AliceAndBobEstimates: the wrapped estimation result
    e_last,         \* AliceAndBobEstimates: last operation and its outcome
    c_args,         \* code_parameter_cmp: the qubit and the parameters compared
    c_result        \* code_parameter_cmp: the orderings computed for c_args

vars == <<ff_target, ff_result, qubit_count, cx_count, ccx_count, free_list,
          last, scenario, phase, r_lower, r_distance, r_alpha_sq, r_item, r_prev, r_count,
          allocated, max_live, e_result, e_last, c_args, c_result>>

ff_vars == <<ff_target, ff_result>>
lc_vars == <<qubit_count, cx_count, ccx_count, free_list, last, scenario, phase>>
r_vars  == <<r_lower, r_distance, r_alpha_sq, r_item, r_prev, r_count>>
d_vars  == <<allocated, max_live>>
e_vars  == <<e_result, e_last>>
c_vars  == <<c_args, c_result>>

None == [tag |-> "None"]

(***************************************************************************)
(* Bounds of the model.                                                    *)
(***************************************************************************)
\* requested error rates range over mant/100 * 10^exp, -MaxTargetExp <= exp <= -2
MaxTargetExp == 15
\* qubit_count grows up to MaxQubits while the interpreter drives the counter
MaxQubits == 3
\* caps of the two gate tallies while the interpreter drives the counter
MaxCx == 4
MaxCcx == 2
\* the free list holds at most MaxFree released indices
MaxFree == 2
\* width in bits standing for the 64 bits of the tallies and of qubit_count
WordBits == 14
\* largest qubit count given to LogicalCounts::new
MaxLiteralQubits == 6
\* a range seeded above max_alpha_sq is followed up to this alpha_sq, which
\* stands for the largest value of its type (u64::MAX, scaled down): the
\* next increment overflows
AlphaCap == 34

(***************************************************************************)
(*                      factories.rs : the catalog                         *)
(***************************************************************************)
Factory(d, a, em, ee, st, acc) ==
    [code_distance |-> d, alpha_sq |-> a,
     error_probability |-> [mant |-> em, exp |-> ee],
     steps |-> st, acceptance_probability |-> acc]

\* ToffoliBuilder::default, Table III of arXiv:2302.06639
factories ==
    << Factory( 3,  375, 105,  -3,    23,  84000),
       Factory( 3,  508, 102,  -4,    29,  74500),
       Factory( 3,  532, 814,  -5,    35,  66000),
       Factory( 5,  715, 462,  -6,    46,  45600),
       Factory( 5,  818, 700,  -7,    53,  36200),
       Factory( 5,  838, 536,  -7,    60,  28800),
       Factory( 7,  971, 614,  -8,    73,  14800),
       Factory( 7, 1076, 840,  -9,    81,  10500),
       Factory( 7, 1106, 516,  -9,    89,   7270),
       Factory( 9, 1164, 228,  -9,   104,   2620),
       Factory( 9, 1283, 230, -10,   113,   1540),
       Factory( 9, 1344, 736, -11,   122,    975),
       Factory(19, 1735, 790, -12,  9576, 100000),
       Factory(21, 1894, 540, -13, 14112, 100000),
       Factory(23, 2053, 374, -14, 21344, 100000) >>

\* f64 comparison a <= b and a < b of two error probabilities
ProbLe(a, b) == \/ a.exp < b.exp
                \/ a.exp = b.exp /\ a.mant <= b.mant

ProbLt(a, b) == \/ a.exp < b.exp
                \/ a.exp = b.exp /\ a.mant < b.mant

\* ToffoliFactory::error_probability
error_probability(f) == f.error_probability

\* estimates::Factory::num_output_states
num_output_states(f) == 1

\* estimates::Factory::physical_qubits for ToffoliFactory
factory_physical_qubits(f) == (4 + 1) * (2 * f.code_distance - 1)

\* floor(n * 10^k / d) and the remainder, digit by digit (n * 10^k is wider
\* than the integers of the checker)
RECURSIVE LongDiv(_, _, _, _)
LongDiv(q, r, d, k) ==
    IF k = 0 THEN <<q, r>>
    ELSE LongDiv(q * 10 + ((r * 10) \div d), (r * 10) % d, d, k - 1)

\* estimates::Factory::duration for ToffoliFactory:
\* round(89.2 * 100 / alpha_sq * steps / acceptance_probability), where
\* f64::round rounds half away from zero.  With alpha_sq in hundredths and
\* acceptance_probability in 1e-5 the quotient is
\* 8920 * steps * 10^7 / (alpha_sq * acceptance_probability).
duration(f) ==
    LET den == f.alpha_sq * f.acceptance_probability
        num == 8920 * f.steps
        qr  == LongDiv(num \div den, num % den, den, 7)
    IN  IF 2 * qr[2] >= den THEN qr[1] + 1 ELSE qr[1]

\* ToffoliFactory::normalized_volume (the assert_eq on num_output_states
\* always passes: it is the constant 1)
normalized_volume(f) == factory_physical_qubits(f) * duration(f)

\* variant: the comparison written the other way round (other.cmp(self))
factory_cmp_reversed(a, b) ==
    IF normalized_volume(b) < normalized_volume(a) THEN "Less"
    ELSE IF normalized_volume(b) > normalized_volume(a) THEN "Greater"
    ELSE "Equal"

\* impl Ord for ToffoliFactory: cmp(a, b) = Less | Equal | Greater
factory_cmp(a, b) ==
    IF normalized_volume(a) < normalized_volume(b) THEN "Less"
    ELSE IF normalized_volume(a) > normalized_volume(b) THEN "Greater"
    ELSE "Equal"

\* f64::total_cmp minimum of the catalog's error probabilities
RECURSIVE MinProb(_, _)
MinProb(seq, best) ==
    IF seq = <<>> THEN best
    ELSE MinProb(Tail(seq),
                 IF ProbLt(Head(seq).error_probability, best)
                 THEN Head(seq).error_probability ELSE best)

\* ToffoliBuilder::default: the cached lowest_error_probability
lowest_error_probability ==
    MinProb(Tail(factories), Head(factories).error_probability)

\* slice::sort_unstable under Ord: insertion of one element
RECURSIVE SortedInsert(_, _)
SortedInsert(f, seq) ==
    IF seq = <<>> THEN <<f>>
    ELSE IF factory_cmp(f, Head(seq)) = "Less" THEN <<f>> \o seq
    ELSE <<Head(seq)>> \o SortedInsert(f, Tail(seq))

RECURSIVE sort_unstable(_)
sort_unstable(seq) ==
    IF seq = <<>> THEN <<>>
    ELSE SortedInsert(Head(seq), sort_unstable(Tail(seq)))

\* variant: only entries strictly better than the target are kept
RECURSIVE filter_factories_strict(_, _)
filter_factories_strict(seq, target) ==
    IF seq = <<>> THEN <<>>
    ELSE IF ProbLt(Head(seq).error_probability, target)
         THEN <<Head(seq)>> \o filter_factories_strict(Tail(seq), target)
         ELSE filter_factories_strict(Tail(seq), target)

\* the filter_map of find_factories: entries with error_probability <= target
RECURSIVE filter_factories(_, _)
filter_factories(seq, target) ==
    IF seq = <<>> THEN <<>>
    ELSE IF ProbLe(Head(seq).error_probability, target)
         THEN <<Head(seq)>> \o filter_factories(Tail(seq), target)
         ELSE filter_factories(Tail(seq), target)

\* variant: the precondition is not checked
target_accepted_unchecked(target) == TRUE

\* the assert! of find_factories
target_accepted(target) == ProbLt(lowest_error_probability, target)

\* ToffoliBuilder::find_factories
find_factories(target) ==
    IF ~ target_accepted(target)
    THEN [tag |-> "panic", msg |-> "Requested error probability is too low",
          list |-> <<>>]
    ELSE [tag |-> "Some", msg |-> "",
          list |-> sort_unstable(filter_factories(factories, target))]

\* ToffoliBuilder::num_magic_state_types
num_magic_state_types == 1


(***************************************************************************)
(*                 counter.rs : LogicalCounts                              *)
(***************************************************************************)
\* qubit indices the driver may name
QubitIds == 0 .. MaxQubits - 1

\* qubit arguments of the gates, measurements and resets (all ignored: `_q`)
GateQubits == {0, 1}

\* values returned by the operations, in one record shape
RetUnit      == [kind |-> "unit",  b |-> FALSE, n |-> 0, amps |-> <<>>, msg |-> ""]
RetBool(v)   == [kind |-> "bool",  b |-> v,     n |-> 0, amps |-> <<>>, msg |-> ""]
RetNum(v)    == [kind |-> "num",   b |-> FALSE, n |-> v, amps |-> <<>>, msg |-> ""]
RetState(a, v) == [kind |-> "state", b |-> FALSE, n |-> v, amps |-> a, msg |-> ""]
\* Err(String) of from_qsharp
RetErr(text) == [kind |-> "err",   b |-> FALSE, n |-> 0, amps |-> <<>>, msg |-> text]

RetPanic     == [kind |-> "panic", b |-> FALSE, n |-> 0, amps |-> <<>>,
                 msg |-> "attempt to add with overflow"]

Called(name, r) == last' = [op |-> name, ret |-> r]

\* The tallies and qubit_count are u64, here WordBits wide.
u64_MAX == 2 ^ WordBits - 1

\* `field += k` on a u64, as the set of its possible outcomes: the sum, or
\* past u64::MAX a panic ("attempt to add with overflow", builds with
\* overflow checks) or the wrapped sum (builds without)
add_assign(v, k) ==
    IF v + k <= u64_MAX
    THEN { [tag |-> "Ok", v |-> v + k] }
    ELSE { [tag |-> "panic", v |-> v],
           [tag |-> "Ok", v |-> (v + k) % (u64_MAX + 1)] }

\* how an operation whose body is one `+=` ends: it returns, or the panic
\* unwinds out of the interpreter and the counter is not driven further
Tallied(name, o) ==
    IF o.tag = "panic"
    THEN /\ Called(name, RetPanic)
         /\ phase' = "aborted"
    ELSE /\ Called(name, RetUnit)
         /\ phase' = phase

\* LogicalCounts::default (from_qsharp) and LogicalCounts::new
LogicalCounts_new(q, c, t) ==
    /\ qubit_count = q
    /\ cx_count = c
    /\ ccx_count = t
    /\ free_list = <<>>

\* ---- impl Backend for LogicalCounts (driven while accumulating) ----
ccx(ctl0, ctl1, q) ==
    /\ phase = "accumulate"
    /\ \E o \in add_assign(ccx_count, 1) :
          /\ ccx_count' = o.v
          /\ Tallied("ccx", o)
    /\ UNCHANGED <<qubit_count, cx_count, free_list, scenario>>

cx(ctl, q) ==
    /\ phase = "accumulate"
    /\ \E o \in add_assign(cx_count, 1) :
          /\ cx_count' = o.v
          /\ Tallied("cx", o)
    /\ UNCHANGED <<qubit_count, ccx_count, free_list, scenario>>

cy(ctl, q) ==
    /\ phase = "accumulate"
    /\ \E o \in add_assign(cx_count, 1) :
          /\ cx_count' = o.v
          /\ Tallied("cy", o)
    /\ UNCHANGED <<qubit_count, ccx_count, free_list, scenario>>

cz(ctl, q) ==
    /\ phase = "accumulate"
    /\ \E o \in add_assign(cx_count, 1) :
          /\ cx_count' = o.v
          /\ Tallied("cz", o)
    /\ UNCHANGED <<qubit_count, ccx_count, free_list, scenario>>

\* the operations with an empty body
NoOp(name, r) ==
    /\ phase = "accumulate"
    /\ Called(name, r)
    /\ UNCHANGED <<qubit_count, cx_count, ccx_count, free_list, scenario, phase>>

h(q) == NoOp("h", RetUnit)

\* variant: the measurement reports the outcome One
m_true(q) == NoOp("m", RetBool(TRUE))

m(q) == NoOp("m", RetBool(FALSE))

mresetz(q) == NoOp("mresetz", RetBool(FALSE))

reset(q) == NoOp("reset", RetUnit)

sadj(q) == NoOp("sadj", RetUnit)

s(q) == NoOp("s", RetUnit)

\* variant: a swap tallied as a single two-qubit gate
swap_single(q0, q1) ==
    /\ phase = "accumulate"
    /\ \E o \in add_assign(cx_count, 1) :
          /\ cx_count' = o.v
          /\ Tallied("swap", o)
    /\ UNCHANGED <<qubit_count, ccx_count, free_list, scenario>>

swap(q0, q1) ==
    /\ phase = "accumulate"
    /\ \E o \in add_assign(cx_count, 3) :
          /\ cx_count' = o.v
          /\ Tallied("swap", o)
    /\ UNCHANGED <<qubit_count, ccx_count, free_list, scenario>>

x(q) == NoOp("x", RetUnit)

y(q) == NoOp("y", RetUnit)

z(q) == NoOp("z", RetUnit)

\* The run is followed along the scenario "allocate three qubits, release
\* the second, allocate again": scenario counts the calls made so far while
\* they are exactly these, and is -1 once the run has left it.
ScenarioAfterAllocate == IF scenario \in {0, 1, 2, 4} THEN scenario + 1 ELSE -1
ScenarioAfterRelease(q) == IF scenario = 3 /\ q = 1 THEN 4 ELSE -1

\* variant: the oldest released index is reused (FIFO)
vec_pop_value_first(v) == v[1]

\* Vec::pop: the element taken (the last one) and the vector left
vec_pop_value(v) == v[Len(v)]
\* variant: the element is read and left in the vector (Vec::last)
vec_peek_rest(v) == v

vec_pop_rest(v) == SubSeq(v, 1, Len(v) - 1)

\* variant: every allocation takes a fresh index
qubit_allocate_fresh ==
    /\ phase = "accumulate"
    /\ qubit_count < u64_MAX
    /\ qubit_count' = qubit_count + 1
    /\ Called("qubit_allocate", RetNum(qubit_count))
    /\ scenario' = ScenarioAfterAllocate
    /\ UNCHANGED <<cx_count, ccx_count, free_list, phase>>

\* usize is as wide as u64 (a 64-bit target), so to_usize never fails
qubit_allocate ==
    /\ phase = "accumulate"
    /\ IF free_list # <<>>
       THEN /\ free_list' = vec_pop_rest(free_list)
            /\ qubit_count' = qubit_count
            /\ Called("qubit_allocate", RetNum(vec_pop_value(free_list)))
            /\ phase' = phase
       ELSE \E o \in add_assign(qubit_count, 1) :
               /\ qubit_count' = o.v
               /\ free_list' = free_list
               /\ IF o.tag = "panic"
                  THEN Tallied("qubit_allocate", o)
                  ELSE /\ Called("qubit_allocate", RetNum(qubit_count))
                       /\ phase' = phase
    /\ scenario' = ScenarioAfterAllocate
    /\ UNCHANGED <<cx_count, ccx_count>>

\* variant: releasing a qubit also gives its slot back
qubit_release_shrinks(q) ==
    /\ phase = "accumulate"
    /\ qubit_count > 0
    /\ qubit_count' = qubit_count - 1
    /\ free_list' = Append(free_list, q)
    /\ Called("qubit_release", RetUnit)
    /\ scenario' = ScenarioAfterRelease(q)
    /\ UNCHANGED <<cx_count, ccx_count, phase>>

\* Vec::push appends; the index is not validated
qubit_release(q) ==
    /\ phase = "accumulate"
    /\ free_list' = Append(free_list, q)
    /\ Called("qubit_release", RetUnit)
    /\ scenario' = ScenarioAfterRelease(q)
    /\ UNCHANGED <<qubit_count, cx_count, ccx_count, phase>>

capture_quantum_state == NoOp("capture_quantum_state", RetState(<<>>, 0))

qubit_is_zero(q) == NoOp("qubit_is_zero", RetBool(TRUE))

\* ---- LogicalCounts::from_qsharp ----
\* phase follows the call: "entered", "read" (the file was read),
\* "accumulate" (the interpreter drives the counter), then "frozen" (Ok:
\* the counter is handed to the caller) or "failed" (Err: no counter is
\* returned, the one built is dropped and its fields are out of reach).
FromQsharpStep(from, to, name, r) ==
    /\ phase = from
    /\ phase' = to
    /\ Called(name, r)
    /\ UNCHANGED <<qubit_count, cx_count, ccx_count, free_list, scenario>>

\* read_to_string(filename) fails, or gives the content
CannotReadFilename ==
    FromQsharpStep("entered", "failed", "from_qsharp", RetErr("Cannot read filename"))

SourceRead == FromQsharpStep("entered", "read", "read_to_string", RetUnit)

\* Interpreter::new fails, or the interpreter and Self::default() are built
CannotCreateInterpreter ==
    FromQsharpStep("read", "failed", "from_qsharp", RetErr("Cannot create interpreter"))

LogicalCounts_default ==
    /\ LogicalCounts_new(0, 0, 0)
    /\ FromQsharpStep("read", "accumulate", "default", RetUnit)

\* eval_entry_with_sim fails after driving the counter part of the way
CannotEstimate ==
    FromQsharpStep("accumulate", "failed", "from_qsharp", RetErr("Cannot estimate Q# code"))

\* eval_entry_with_sim succeeds and from_qsharp returns Ok(counter); the
\* callers share it behind an Rc (main.rs, examples/from_qsharp.rs), after
\* which the &mut self operations above can no longer be called
Freeze == FromQsharpStep("accumulate", "frozen", "from_qsharp", RetUnit)

\* ---- impl Overhead for LogicalCounts (read-only, &self) ----
\* variant: the plain (rounded down) division
div_floor(a, b) == a \div b

\* u64::div_ceil
div_ceil(a, b) == (a \div b) + (IF a % b > 0 THEN 1 ELSE 0)

\* The outcomes of logical_qubits: div_ceil(2) + 1 always fits, the final
\* `+` overflows for large qubit counts, as `+=` does (add_assign).
LogicalCounts_logical_qubits(q) ==
    LET horizontal_routing_qubits == div_ceil(q, 2) + 1
    IN  add_assign(q, horizontal_routing_qubits)

\* ---- u64 expressions ----
\* A u64 expression is followed as the value it has when overflow wraps
\* (builds without overflow checks) together with the message of the first
\* overflow met while evaluating it, "" if there is none: a build with
\* overflow checks panics with that message.
u64(n) == [v |-> n, panic |-> ""]

wrapping(n) == (n + (u64_MAX + 1)) % (u64_MAX + 1)

u64_op(a, b, n, msg) ==
    [v |-> wrapping(n),
     panic |-> IF a.panic # "" THEN a.panic
               ELSE IF b.panic # "" THEN b.panic
               ELSE IF n < 0 \/ n > u64_MAX THEN msg
               ELSE ""]

u64_add(a, b) == u64_op(a, b, a.v + b.v, "attempt to add with overflow")
u64_sub(a, b) == u64_op(a, b, a.v - b.v, "attempt to subtract with overflow")
u64_mul(a, b) == u64_op(a, b, a.v * b.v, "attempt to multiply with overflow")

\* a call of the estimates ended by a panic, after the lines it had written
EstimatePanic(text, written) == [tag |-> "panic", msg |-> text, lines |-> written]

\* self.layout_overhead().logical_qubits() as a u64 expression
logical_qubits_returned(q) ==
    LET outcomes == LogicalCounts_logical_qubits(q)
    IN  [v |-> (CHOOSE o \in outcomes : o.tag = "Ok").v,
         panic |-> IF \E o \in outcomes : o.tag = "panic"
                   THEN RetPanic.msg ELSE ""]

\* ---- f64 arithmetic of logical_depth ----
\* The f64 nearest to 2.2 is 2.2 + 4w and the f64 nearest to 10.1 is
\* 10.1 - 8w, with w = 2^-52 / 5.  A value is followed as its exact
\* decimal n10 / 10 plus an error counted in units of w; f64 values in
\* [2^k, 2^(k+1)) are 5 * 2^k units apart.  (For values below 2^27, where
\* the integers of the model do not overflow; the u64 -> f64 conversions
\* are exact there and the final to_u64 succeeds.)
RECURSIVE f64_binade(_, _)
f64_binade(n10, k) == IF 10 * 2 ^ (k + 1) <= n10 THEN f64_binade(n10, k + 1) ELSE k

\* round to nearest, ties to even: the multiple of spacing chosen for an
\* offset from a grid point whose index has the given parity
round_ties_even(offset, spacing, parity) ==
    LET q == offset \div spacing
        r == offset - q * spacing
    IN  IF 2 * r > spacing THEN q + 1
        ELSE IF 2 * r = spacing /\ (parity + q) % 2 = 1 THEN q + 1
        ELSE q

\* the error (units of w) of the f64 nearest to n10 / 10 + err * w
f64_round(n10, err) ==
    IF n10 = 0 THEN 0
    ELSE LET k0 == f64_binade(n10, 0)
             k == IF n10 = 10 * 2 ^ k0 /\ err < 0 THEN k0 - 1 ELSE k0
             \* the exact value lies rho * 2^k units above a grid point
             rho == ((n10 % 5) * ((2 ^ ((51 - k) % 4)) % 5)) % 5
             spacing == 5 * 2 ^ k
         IN  round_ties_even(2 ^ k * rho + err, spacing, rho % 2) * spacing
                 - 2 ^ k * rho

\* (cx_f * 2.2 + ccx_f * 10.1).ceil().to_u64()
LogicalCounts_logical_depth(c, t) ==
    LET cx_cycles_err == f64_round(22 * c, 4 * c)
        ccx_cycles_err == f64_round(101 * t, -8 * t)
        sum_err == IF c = 0 THEN ccx_cycles_err
                   ELSE IF t = 0 THEN cx_cycles_err
                   ELSE f64_round(22 * c + 101 * t, cx_cycles_err + ccx_cycles_err)
        n10 == 22 * c + 101 * t
    IN  IF n10 % 10 = 0
        THEN n10 \div 10 + (IF sum_err > 0 THEN 1 ELSE 0)
        ELSE div_ceil(n10, 10)

LogicalCounts_num_magic_states(t) == t

Overhead(name, r) ==
    /\ phase = "frozen"
    /\ Called(name, RetNum(r))
    /\ UNCHANGED <<qubit_count, cx_count, ccx_count, free_list, scenario, phase>>

\* a panic unwinds out of the caller; the shared counter is untouched
OverheadPanics(name) ==
    /\ phase = "frozen"
    /\ phase' = "aborted"
    /\ Called(name, RetPanic)
    /\ UNCHANGED <<qubit_count, cx_count, ccx_count, free_list, scenario>>

logical_qubits ==
    \E o \in LogicalCounts_logical_qubits(qubit_count) :
        IF o.tag = "panic"
        THEN OverheadPanics("logical_qubits")
        ELSE Overhead("logical_qubits", o.v)

\* the ErrorBudget and the magic state type are ignored (`_`)
logical_depth(budget) ==
    Overhead("logical_depth", LogicalCounts_logical_depth(cx_count, ccx_count))

\* variant: the count is taken out of the counter as it is read
num_magic_states_take(budget, magic_state_type) ==
    /\ phase = "frozen"
    /\ Called("num_magic_states", RetNum(LogicalCounts_num_magic_states(ccx_count)))
    /\ ccx_count' = 0
    /\ UNCHANGED <<qubit_count, cx_count, free_list, scenario, phase>>

num_magic_states(budget, magic_state_type) ==
    Overhead("num_magic_states", LogicalCounts_num_magic_states(ccx_count))


(***************************************************************************)
(*                 code.rs : CodeParameterRange                            *)
(***************************************************************************)
\* the arguments of CodeParameterRange::new in code_parameter_range
max_distance == 49
max_alpha_sq == 30

\* CodeParameter::new; alpha_sq is an f64, kept in tenths
CodeParameter(d, a) == [tag |-> "Some", distance |-> d, alpha_sq |-> a]

\* variant: the conversion rounds to the nearest integer
to_u64_rounded(a) == (a + 5) \div 10

\* f64 -> u64 (ToPrimitive::to_u64 truncates) and u64 -> f64, on tenths
to_u64(a) == a \div 10
to_f64(n) == n * 10

\* CodeParameterRange::new(lower_bound, 49, 30.0): the two fields it sets
CodeParameterRange_new(lower_bound) ==
    LET lb == IF lower_bound = None THEN CodeParameter(1, 10) ELSE lower_bound
    IN  [distance |-> lb.distance, alpha_sq |-> to_u64(lb.alpha_sq)]

\* a call that aborted the process
Panic(text) == [tag |-> "panic", msg |-> text]

\* Iterator::next for CodeParameterRange.  `self.alpha_sq += 1` at the
\* largest value of the type overflows: a build with overflow checks (debug)
\* panics, one without (release) wraps to 0.  After a panic there is no
\* further call.
next ==
    /\ r_item.tag # "panic"
    /\ r_prev' = r_item
    /\ IF r_distance > max_distance
       THEN /\ r_item' = None
            /\ UNCHANGED <<r_distance, r_alpha_sq, r_count, r_lower>>
       ELSE IF r_alpha_sq = max_alpha_sq
       THEN /\ r_item' = CodeParameter(r_distance, to_f64(r_alpha_sq))
            /\ r_distance' = r_distance + 2
            /\ r_alpha_sq' = 1
            /\ r_count' = r_count + 1
            /\ UNCHANGED r_lower
       ELSE IF r_alpha_sq < AlphaCap
       THEN /\ r_item' = CodeParameter(r_distance, to_f64(r_alpha_sq))
            /\ r_distance' = r_distance
            /\ r_alpha_sq' = r_alpha_sq + 1
            /\ r_count' = r_count + 1
            /\ UNCHANGED r_lower
       ELSE \/ /\ r_item' = Panic("attempt to add with overflow")
               /\ UNCHANGED <<r_distance, r_alpha_sq, r_count, r_lower>>
            \/ /\ r_item' = CodeParameter(r_distance, to_f64(r_alpha_sq))
               /\ r_distance' = r_distance
               /\ r_alpha_sq' = 0
               /\ r_count' = r_count + 1
               /\ UNCHANGED r_lower

(***************************************************************************)
(*                 code.rs : code_parameter_cmp                            *)
(***************************************************************************)
Ok(value) == [tag |-> "Ok", v |-> value]

\* RepetitionCode::physical_qubits and logical_cycle_time (Result<u64, String>)
RepetitionCode_physical_qubits(parameter) == Ok(2 * parameter.distance - 1)

\* variant: the cycle is timed with the adiabatic gate time of the
\* factories, which shrinks as alpha_sq grows
logical_cycle_time_adiabatic(qubit, parameter) ==
    Ok((500 * parameter.distance * 10) \div parameter.alpha_sq)

RepetitionCode_logical_cycle_time(qubit, parameter) == Ok(500 * parameter.distance)

\* u64::cmp and Ordering::then
Ord_cmp(a, b) == IF a < b THEN "Less" ELSE IF a > b THEN "Greater" ELSE "Equal"
Ordering_then(o1, o2) == IF o1 # "Equal" THEN o1 ELSE o2
Ordering_reverse(o) ==
    IF o = "Less" THEN "Greater" ELSE IF o = "Greater" THEN "Less" ELSE "Equal"

\* the `if let (Ok(..), Ok(..), Ok(..), Ok(..))` pattern matches
cmp_all_ok(qubit, p1, p2) ==
    /\ RepetitionCode_physical_qubits(p1).tag = "Ok"
    /\ RepetitionCode_logical_cycle_time(qubit, p1).tag = "Ok"
    /\ RepetitionCode_physical_qubits(p2).tag = "Ok"
    /\ RepetitionCode_logical_cycle_time(qubit, p2).tag = "Ok"

\* variant: the larger configuration is ranked first
code_parameter_cmp_descending(qubit, p1, p2) ==
    IF cmp_all_ok(qubit, p1, p2)
    THEN Ordering_then(
             Ord_cmp(RepetitionCode_physical_qubits(p2).v,
                     RepetitionCode_physical_qubits(p1).v),
             Ord_cmp(RepetitionCode_logical_cycle_time(qubit, p2).v,
                     RepetitionCode_logical_cycle_time(qubit, p1).v))
    ELSE "Equal"

code_parameter_cmp(qubit, p1, p2) ==
    IF cmp_all_ok(qubit, p1, p2)
    THEN Ordering_then(
             Ord_cmp(RepetitionCode_physical_qubits(p1).v,
                     RepetitionCode_physical_qubits(p2).v),
             Ord_cmp(RepetitionCode_logical_cycle_time(qubit, p1).v,
                     RepetitionCode_logical_cycle_time(qubit, p2).v))
    ELSE "Equal"

\* The caller compares the three parameters of c_args pair by pair, in this
\* order; c_result lists the orderings returned so far.
CmpPairs == << <<1, 1>>, <<1, 2>>, <<2, 1>>, <<2, 3>>, <<1, 3>> >>

Compare ==
    /\ Len(c_result) < Len(CmpPairs)
    /\ LET pair == CmpPairs[Len(c_result) + 1]
       IN  c_result' = Append(c_result,
               code_parameter_cmp(c_args.qubit, c_args.p[pair[1]], c_args.p[pair[2]]))
    /\ UNCHANGED c_args


(***************************************************************************)
(*                 estimates.rs : AliceAndBobEstimates                     *)
(***************************************************************************)
\* The wrapped PhysicalResourceEstimationResult is e_result; its layout
\* overhead is the frozen LogicalCounts (qubit_count, cx_count, ccx_count).
\* It has one magic state type, so factory_parts() has the one entry
\* factory_part: None, or Some FactoryPart with its factory and copies.
FactoryPart(f, c) == [tag |-> "Some", factory |-> f, copies |-> c]

toffoli_factory_part(res) == res.factory_part

\* Option::map_or(0, FactoryPart::copies)
copies_or_0(part) == IF part = None THEN 0 ELSE part.copies

\* variant: six routing qubits for each factory
additional_routing_qubits_six(lq, copies) ==
    u64_mul(u64(2),
            u64_sub(u64_mul(u64(3), u64_add(lq, u64_mul(u64(copies), u64(6)))),
                    u64(1)))

\* 2 * ((3 * (logical_qubits() + copies * 5)) - 1), lq a u64 expression
additional_routing_qubits(lq, copies) ==
    u64_mul(u64(2),
            u64_sub(u64_mul(u64(3), u64_add(lq, u64_mul(u64(copies), u64(5)))),
                    u64(1)))

\* a u64 expression: the routing term is evaluated first, then added
AliceAndBobEstimates_physical_qubits(res, q) ==
    LET routing == additional_routing_qubits(logical_qubits_returned(q),
                                             copies_or_0(toffoli_factory_part(res)))
    IN  u64_op(routing, u64(res.physical_qubits),
               res.physical_qubits + routing.v, "attempt to add with overflow")

\* the percentage physical_qubits_for_factories / physical_qubits * 100, an
\* f64 kept as the exact fraction num / den (a zero den gives inf or NaN,
\* not a panic); it panics where physical_qubits does
AliceAndBobEstimates_factory_fraction(res, q) ==
    LET total == AliceAndBobEstimates_physical_qubits(res, q)
    IN  [v |-> [num |-> res.physical_qubits_for_factories * 100, den |-> total.v],
         panic |-> total.panic]

\* a count times a probability, in the [mant, exp] form of the probability
\* (the mantissa is left as it comes out)
Times(n, prob) == [mant |-> n * prob.mant, exp |-> prob.exp]
Zero == [mant |-> 0, exp |-> 0]

\* variant: the magic states are charged at the first catalog entry's error
\* probability when no factory was chosen
magic_states_error_default(res, t) ==
    IF toffoli_factory_part(res) = None
    THEN Times(t, error_probability(factories[1]))
    ELSE Times(t, error_probability(toffoli_factory_part(res).factory))

\* Option::map_or(0.0, |p| num_magic_states(0) * p.factory().error_probability())
magic_states_error(res, t) ==
    IF toffoli_factory_part(res) = None
    THEN Zero
    ELSE Times(t, error_probability(toffoli_factory_part(res).factory))

\* `logical + magic_states`, kept as its two exact terms; the volume
\* num_cycles * logical_qubits is a u64 product
AliceAndBobEstimates_total_error(res, q, t) ==
    LET volume == u64_mul(u64(res.num_cycles), logical_qubits_returned(q))
    IN  [v |-> [logical |-> Times(volume.v, res.logical_error_rate),
                magic_states |-> magic_states_error(res, t)],
         panic |-> volume.panic]

\* Display for ToffoliFactory and for CodeParameter: "{} (|a|^2 = {})"
Display_factory(f) == <<f.code_distance, f.alpha_sq>>

\* The report is written by eleven writeln! statements in turn.  Each is
\* followed as the panic met while evaluating its argument ("" if none)
\* and the <<label, value>> line it writes (none for a blank line or a
\* rule; number formatting left out).
Statement(text, written) == [panic |-> text, line |-> written]
Rule == Statement("", <<>>)

ReportStatements(res, q, t, overflow_checks) ==
    LET total == AliceAndBobEstimates_physical_qubits(res, q)
        error == AliceAndBobEstimates_total_error(res, q, t)
        fraction == AliceAndBobEstimates_factory_fraction(res, q)
        part == toffoli_factory_part(res)
        checked(e) == IF overflow_checks THEN e.panic ELSE ""
    IN  << Rule,
           Rule,
           Statement(checked(total), << <<"# physical qubits", total.v>> >>),
           Statement("", << <<"runtime", res.runtime>> >>),
           Statement(checked(error), << <<"total error", error.v>> >>),
           Rule,
           Statement("", << <<"code distance", res.code_parameter>> >>),
           Statement("", << <<"#factories", copies_or_0(part)>> >>),
           IF part = None
           THEN Statement("No factory part", <<>>)
           ELSE Statement("", << <<"factories distance",
                                    Display_factory(part.factory)>> >>),
           Statement(checked(fraction), << <<"factory fraction", fraction.v>> >>),
           Rule >>

\* fmt from statement i on, the sink taking the first `accepted` writes and
\* refusing the next: the argument is evaluated, then `?` returns the
\* sink's fmt::Error
RECURSIVE fmt_from(_, _, _, _)
fmt_from(statements, i, accepted, lines) ==
    IF i > Len(statements)
    THEN [tag |-> "Ok", msg |-> "", lines |-> lines]
    ELSE IF statements[i].panic # ""
    THEN EstimatePanic(statements[i].panic, lines)
    ELSE IF i > accepted
    THEN [tag |-> "Err", msg |-> "fmt::Error", lines |-> lines]
    ELSE fmt_from(statements, i + 1, accepted, lines \o statements[i].line)

Display_fmt(res, q, t, overflow_checks, accepted) ==
    fmt_from(ReportStatements(res, q, t, overflow_checks), 1, accepted, <<>>)

\* the numbers of writes a sink can take: none, some, or all of them
SinkAccepts(res, q, t) == 0 .. Len(ReportStatements(res, q, t, FALSE))

Estimated(name, outcome) ==
    /\ e_last' = [op |-> name, out |-> outcome]
    /\ UNCHANGED e_result

\* the end of a call that evaluates the u64 expression e, in a build with
\* overflow checks or without
Evaluated(name, e, overflow_checks) ==
    Estimated(name, IF overflow_checks /\ e.panic # ""
                    THEN EstimatePanic(e.panic, <<>>)
                    ELSE Ok(e.v))

physical_qubits ==
    \E overflow_checks \in BOOLEAN :
        Evaluated("physical_qubits",
                  AliceAndBobEstimates_physical_qubits(e_result, qubit_count),
                  overflow_checks)

factory_fraction ==
    \E overflow_checks \in BOOLEAN :
        Evaluated("factory_fraction",
                  AliceAndBobEstimates_factory_fraction(e_result, qubit_count),
                  overflow_checks)

total_error ==
    \E overflow_checks \in BOOLEAN :
        Evaluated("total_error",
                  AliceAndBobEstimates_total_error(e_result, qubit_count, ccx_count),
                  overflow_checks)

fmt ==
    \E overflow_checks \in BOOLEAN,
       accepted \in SinkAccepts(e_result, qubit_count, ccx_count) :
        Estimated("fmt", Display_fmt(e_result, qubit_count, ccx_count,
                                     overflow_checks, accepted))


(***************************************************************************)
(*                         Specifications                                  *)
(***************************************************************************)
\* requested error rates: every catalog mantissa and its neighbours, at
\* every exponent down to -MaxTargetExp
TargetMants ==
    {100, 999} \cup
    UNION { {factories[i].error_probability.mant - 1,
             factories[i].error_probability.mant,
             factories[i].error_probability.mant + 1} : i \in 1 .. Len(factories) }

Targets == { [mant |-> mt, exp |-> -e] :
             mt \in { v \in TargetMants : v >= 100 /\ v <= 999 },
             e \in 2 .. MaxTargetExp }

NoCall == [tag |-> "None", msg |-> "", list |-> <<>>]

\* literal tallies given to LogicalCounts::new (main.rs, examples)
\* small counts, a count whose logical qubits fit and whose routing term
\* does not, the smallest count whose logical qubits pass u64::MAX, and
\* u64::MAX
LiteralQubits ==
    (0 .. MaxLiteralQubits)
        \cup {u64_MAX \div 4, u64_MAX - u64_MAX \div 3, u64_MAX}
LiteralCx     == {0, 10, 25}
LiteralCcx    == {0, 2}

\* ErrorBudget::new(logical, magic_states, rotations) in units of 1e-4:
\* the two budgets of main.rs, and an empty one
ErrorBudgets == { <<1665, 1665, 0>>, <<5, 5, 0>>, <<0, 0, 0>> }

\* lower bounds a range is seeded with: odd distances, alpha_sq in tenths
LowerDistances == {1, 3, 25, 47, 49, 51}
LowerAlphaSq   == {10, 19, 25, 150, 290, 300, 305, 310}
LowerBounds    == {None} \cup
                  { CodeParameter(d, a) : d \in LowerDistances, a \in LowerAlphaSq }

FactoriesIdle == ff_target = None /\ ff_result = NoCall
DriverIdle    == allocated = {} /\ max_live = 0
EstimatesIdle == e_result = None /\ e_last = [op |-> "none", out |-> None]
CmpIdle       == c_args = None /\ c_result = <<>>

\* the interpreter run stays within the bounds of the model
WithinRun ==
    /\ qubit_count <= MaxQubits
    /\ cx_count <= MaxCx
    /\ ccx_count <= MaxCcx
    /\ Len(free_list) <= MaxFree

CounterStart ==
    /\ LogicalCounts_new(0, 0, 0)
    /\ phase = "accumulate"
    /\ last = [op |-> "default", ret |-> RetUnit]
    /\ scenario = 0

\* from_qsharp was called; no counter is built yet
CounterEntered ==
    /\ LogicalCounts_new(0, 0, 0)
    /\ phase = "entered"
    /\ last = [op |-> "call", ret |-> RetUnit]
    /\ scenario = 0

CounterLiteral ==
    /\ \E q \in LiteralQubits, c \in LiteralCx, t \in LiteralCcx :
          LogicalCounts_new(q, c, t)
    /\ phase = "frozen"
    /\ last = [op |-> "new", ret |-> RetUnit]
    /\ scenario = 0

RangeStart(lower_bound) ==
    /\ r_lower = lower_bound
    /\ r_distance = CodeParameterRange_new(lower_bound).distance
    /\ r_alpha_sq = CodeParameterRange_new(lower_bound).alpha_sq
    /\ r_item = [tag |-> "NotCalled"]
    /\ r_prev = [tag |-> "NotCalled"]
    /\ r_count = 0

\* ---- find_factories called with any requested error rate ----
FindFactories ==
    /\ ff_result = NoCall
    /\ \E target \in Targets :
          /\ ff_target' = target
          /\ ff_result' = find_factories(target)
    /\ UNCHANGED <<lc_vars, r_vars, d_vars, e_vars, c_vars>>

\* the caller is done with the outcome; the builder is unchanged (&self)
DropFactories ==
    /\ ff_result # NoCall
    /\ ff_target' = None
    /\ ff_result' = NoCall
    /\ UNCHANGED <<lc_vars, r_vars, d_vars, e_vars, c_vars>>

NextFactories == FindFactories \/ DropFactories

InitFactories ==
    /\ FactoriesIdle /\ CounterStart /\ RangeStart(None)
    /\ DriverIdle /\ EstimatesIdle /\ CmpIdle

SpecFactories == InitFactories /\ [][NextFactories]_vars

\* ---- the counter driven by the interpreter, then frozen and converted ----
InitCounter ==
    /\ FactoriesIdle
    /\ CounterEntered \/ CounterLiteral
    /\ RangeStart(None)
    /\ DriverIdle /\ EstimatesIdle /\ CmpIdle

NextCounter ==
    /\ \/ \E q0 \in GateQubits, q1 \in GateQubits, q2 \in GateQubits : ccx(q0, q1, q2)
       \/ \E q0 \in GateQubits, q1 \in GateQubits : cx(q0, q1)
       \/ \E q0 \in GateQubits, q1 \in GateQubits : cy(q0, q1)
       \/ \E q0 \in GateQubits, q1 \in GateQubits : cz(q0, q1)
       \/ \E q0 \in GateQubits : h(q0)
       \/ \E q0 \in GateQubits : m(q0)
       \/ \E q0 \in GateQubits : mresetz(q0)
       \/ \E q0 \in GateQubits : reset(q0)
       \/ \E q0 \in GateQubits : sadj(q0)
       \/ \E q0 \in GateQubits : s(q0)
       \/ \E q0 \in GateQubits, q1 \in GateQubits : swap(q0, q1)
       \/ \E q0 \in GateQubits : x(q0)
       \/ \E q0 \in GateQubits : y(q0)
       \/ \E q0 \in GateQubits : z(q0)
       \/ qubit_allocate
       \/ \E q0 \in QubitIds : qubit_release(q0)
       \/ capture_quantum_state
       \/ \E q0 \in GateQubits : qubit_is_zero(q0)
       \/ CannotReadFilename
       \/ SourceRead
       \/ CannotCreateInterpreter
       \/ LogicalCounts_default
       \/ CannotEstimate
       \/ Freeze
       \/ logical_qubits
       \/ \E budget \in ErrorBudgets : logical_depth(budget)
       \/ \E budget \in ErrorBudgets : num_magic_states(budget, 0)
    /\ phase' = "accumulate" => WithinRun'
    /\ UNCHANGED <<ff_vars, r_vars, d_vars, e_vars, c_vars>>

SpecCounter == InitCounter /\ [][NextCounter]_vars

\* ---- one CodeParameterRange, iterated to its end ----
InitRange ==
    /\ FactoriesIdle
    /\ CounterStart
    /\ \E lower_bound \in LowerBounds : RangeStart(lower_bound)
    /\ DriverIdle /\ EstimatesIdle /\ CmpIdle

NextRange == next /\ UNCHANGED <<ff_vars, lc_vars, d_vars, e_vars, c_vars>>

SpecRange == InitRange /\ [][NextRange]_vars

\* the caller keeps calling next for as long as the process runs
SpecRangeFair == SpecRange /\ WF_vars(NextRange)

\* ---- the counter driven from tallies at the top of their type ----
EdgeCounts == {0, u64_MAX - 1, u64_MAX}

\* the run stays next to the top of the type, or just past the wrap
NearEdge ==
    /\ \A v \in {qubit_count, cx_count, ccx_count} : v <= 2 \/ v >= u64_MAX - 2
    /\ Len(free_list) <= 1

InitCounterEdge ==
    /\ FactoriesIdle
    /\ \E q \in EdgeCounts, c \in EdgeCounts, t \in EdgeCounts :
          LogicalCounts_new(q, c, t)
    /\ phase = "accumulate"
    /\ last = [op |-> "new", ret |-> RetUnit]
    /\ scenario = -1
    /\ RangeStart(None)
    /\ DriverIdle /\ EstimatesIdle /\ CmpIdle

NextCounterEdge ==
    /\ \/ \E q0 \in GateQubits, q1 \in GateQubits, q2 \in GateQubits : ccx(q0, q1, q2)
       \/ \E q0 \in GateQubits, q1 \in GateQubits : cx(q0, q1)
       \/ \E q0 \in GateQubits, q1 \in GateQubits : cy(q0, q1)
       \/ \E q0 \in GateQubits, q1 \in GateQubits : cz(q0, q1)
       \/ \E q0 \in GateQubits : h(q0)
       \/ \E q0 \in GateQubits : m(q0)
       \/ \E q0 \in GateQubits : mresetz(q0)
       \/ \E q0 \in GateQubits : reset(q0)
       \/ \E q0 \in GateQubits : sadj(q0)
       \/ \E q0 \in GateQubits : s(q0)
       \/ \E q0 \in GateQubits, q1 \in GateQubits : swap(q0, q1)
       \/ \E q0 \in GateQubits : x(q0)
       \/ \E q0 \in GateQubits : y(q0)
       \/ \E q0 \in GateQubits : z(q0)
       \/ qubit_allocate
       \/ \E q0 \in QubitIds : qubit_release(q0)
       \/ capture_quantum_state
       \/ \E q0 \in GateQubits : qubit_is_zero(q0)
    /\ NearEdge'
    /\ UNCHANGED <<ff_vars, r_vars, d_vars, e_vars, c_vars>>

SpecCounterEdge == InitCounterEdge /\ [][NextCounterEdge]_vars

\* ---- the counter driven by an interpreter that keeps track of the ----
\* ---- qubits it holds and releases only those                       ----
Max(a, b) == IF a >= b THEN a ELSE b

DriverAllocate ==
    /\ qubit_allocate
    /\ allocated' = allocated \cup {last'.ret.n}
    /\ max_live' = Max(max_live, Cardinality(allocated'))

DriverRelease ==
    /\ \E q \in allocated :
          /\ qubit_release(q)
          /\ allocated' = allocated \ {q}
    /\ UNCHANGED max_live

InitDriver ==
    /\ FactoriesIdle
    /\ CounterStart
    /\ RangeStart(None)
    /\ DriverIdle /\ EstimatesIdle /\ CmpIdle

NextDriver ==
    /\ \/ DriverAllocate
       \/ DriverRelease
       \/ /\ \/ \E q0 \in GateQubits, q1 \in GateQubits, q2 \in GateQubits : ccx(q0, q1, q2)
             \/ \E q0 \in GateQubits, q1 \in GateQubits : cx(q0, q1)
             \/ \E q0 \in GateQubits, q1 \in GateQubits : cy(q0, q1)
             \/ \E q0 \in GateQubits, q1 \in GateQubits : cz(q0, q1)
             \/ \E q0 \in GateQubits : h(q0)
             \/ \E q0 \in GateQubits : m(q0)
             \/ \E q0 \in GateQubits : mresetz(q0)
             \/ \E q0 \in GateQubits : reset(q0)
             \/ \E q0 \in GateQubits : sadj(q0)
             \/ \E q0 \in GateQubits : s(q0)
             \/ \E q0 \in GateQubits, q1 \in GateQubits : swap(q0, q1)
             \/ \E q0 \in GateQubits : x(q0)
             \/ \E q0 \in GateQubits : y(q0)
             \/ \E q0 \in GateQubits : z(q0)
             \/ capture_quantum_state
             \/ \E q0 \in GateQubits : qubit_is_zero(q0)
          /\ UNCHANGED d_vars
    /\ WithinRun'
    /\ UNCHANGED <<ff_vars, r_vars, e_vars, c_vars>>

SpecDriver == InitDriver /\ [][NextDriver]_vars

\* ---- code_parameter_cmp applied to parameters of the parameter space ----
CmpDistances == {1, 3, 47, 49}
CmpAlphaSq   == {10, 20, 300}
CmpParameters == { CodeParameter(d, a) : d \in CmpDistances, a \in CmpAlphaSq }
\* CatQubit with k1_k2 = 1e-5 (the default) and 1e-4
Qubits == { [k1_k2 |-> [mant |-> 100, exp |-> -5]],
            [k1_k2 |-> [mant |-> 100, exp |-> -4]] }

InitCmp ==
    /\ FactoriesIdle
    /\ CounterStart
    /\ RangeStart(None)
    /\ DriverIdle /\ EstimatesIdle
    /\ c_args \in [qubit : Qubits, p : [1 .. 3 -> CmpParameters]]
    /\ c_result = <<>>

NextCmp == Compare /\ UNCHANGED <<ff_vars, lc_vars, r_vars, d_vars, e_vars>>

SpecCmp == InitCmp /\ [][NextCmp]_vars

\* ---- an estimation result wrapped and queried ----
EstCopies == {1, 2}
EstFactories == {factories[1], factories[13], factories[15]}
EstParts == {None} \cup { FactoryPart(f, c) : f \in EstFactories, c \in EstCopies }
EstParameters == {CodeParameter(3, 50), CodeParameter(15, 190)}
EstCycles == {1, 1000}
EstErrorRates == { [mant |-> 100, exp |-> -9], [mant |-> 374, exp |-> -14] }

\* The engine is outside this repository.  Its total for the algorithm is
\* one patch for each logical qubit; where that is past u64::MAX (or the
\* logical qubits themselves are) the total it reports is an input.
EstAlgorithmTotal == 100
AlgorithmTotals(q, parameter) ==
    LET lq == logical_qubits_returned(q)
        patches == lq.v * RepetitionCode_physical_qubits(parameter).v
    IN  IF lq.panic = "" /\ patches <= u64_MAX \div 2
        THEN {patches}
        ELSE {EstAlgorithmTotal}

\* what the engine hands over: the algorithm's patches plus the factories
EngineResult(algorithm, part, parameter, cycles, rate) ==
    LET for_factories == IF part = None THEN 0
                         ELSE part.copies * factory_physical_qubits(part.factory)
    IN  [physical_qubits |-> algorithm + for_factories,
         physical_qubits_for_factories |-> for_factories,
         factory_part |-> part,
         code_parameter |-> parameter,
         num_cycles |-> cycles,
         runtime |-> cycles * RepetitionCode_logical_cycle_time(None, parameter).v,
         logical_error_rate |-> rate]

InitEstimates ==
    /\ FactoriesIdle
    /\ CounterLiteral
    /\ RangeStart(None)
    /\ DriverIdle /\ CmpIdle
    /\ \E part \in EstParts, parameter \in EstParameters,
          cycles \in EstCycles, rate \in EstErrorRates :
          /\ (part = None) = (ccx_count = 0)
          /\ \E algorithm \in AlgorithmTotals(qubit_count, parameter) :
                e_result = EngineResult(algorithm, part, parameter, cycles, rate)
    /\ e_last = [op |-> "from", out |-> None]

NextEstimates ==
    /\ \/ physical_qubits
       \/ factory_fraction
       \/ total_error
       \/ fmt
    /\ UNCHANGED <<ff_vars, lc_vars, r_vars, d_vars, c_vars>>

SpecEstimates == InitEstimates /\ [][NextEstimates]_vars



(***************************************************************************)
(*                              Claims                                     *)
(***************************************************************************)
Returned == ff_result.tag = "Some"
Positions == 1 .. Len(ff_result.list)
CatalogIds == 1 .. Len(factories)

\* C1: whenever find_factories returns, the returned sequence is sorted
\* ascending by normalized volume, every returned factory has
\* error_probability <= target, and every catalog entry with
\* error_probability <= target is in the sequence.
C1_SortedFilteredComplete ==
    Returned =>
        /\ \A i \in Positions, j \in Positions :
              i < j => normalized_volume(ff_result.list[i])
                          <= normalized_volume(ff_result.list[j])
        /\ \A i \in Positions :
              ProbLe(ff_result.list[i].error_probability, ff_target)
        /\ \A k \in CatalogIds :
              ProbLe(factories[k].error_probability, ff_target)
                 => \E i \in Positions : ff_result.list[i] = factories[k]

\* a call that returned several factories and left others out
C1_Witness ==
    /\ Returned
    /\ Len(ff_result.list) >= 3
    /\ Len(ff_result.list) < Len(factories)

\* C2: called with a target equal to the catalog's minimum error
\* probability, find_factories returns a non-empty sequence that contains
\* the factory achieving that minimum.
C2_EqualTargetReturnsMinimizer ==
    (ff_result # NoCall /\ ff_target = lowest_error_probability) =>
        /\ Returned
        /\ ff_result.list # <<>>
        /\ \E i \in Positions :
              ff_result.list[i].error_probability = lowest_error_probability

\* C3: called with a target strictly below the catalog's minimum error
\* probability, find_factories ends in the fatal failure "Requested error
\* probability is too low" and returns no sequence.
C3_BelowMinimumPanics ==
    (ff_result # NoCall /\ \A k \in CatalogIds :
                              ProbLt(ff_target, factories[k].error_probability)) =>
        /\ ff_result.tag = "panic"
        /\ ff_result.msg = "Requested error probability is too low"
        /\ ~ Returned

\* a call with 3.73e-14, just below the catalog's best 3.74e-14
C3_Witness ==
    /\ ff_target = [mant |-> 373, exp |-> -14]
    /\ ff_result.tag = "panic"

\* C4: qubit_allocate returns the most recently released index whenever the
\* free list is non-empty (qubit_count unchanged), and otherwise returns the
\* old qubit_count and increases it by exactly 1; allocating 3 qubits,
\* releasing the second and allocating again returns the second index (1).
C4_AllocateStep ==
    last'.op = "qubit_allocate" =>
        IF free_list # <<>>
        THEN /\ last'.ret = RetNum(free_list[Len(free_list)])
             /\ free_list' = [i \in 1 .. Len(free_list) - 1 |-> free_list[i]]
             /\ qubit_count' = qubit_count
        ELSE /\ last'.ret = RetNum(qubit_count)
             /\ qubit_count' = qubit_count + 1
             /\ free_list' = <<>>

C4_ReleaseStep ==
    last'.op = "qubit_release" =>
        /\ Len(free_list') = Len(free_list) + 1
        /\ \A i \in 1 .. Len(free_list) : free_list'[i] = free_list[i]

C4_ScenarioResult ==
    /\ (scenario \in 1 .. 3 /\ last.op = "qubit_allocate")
          => last.ret = RetNum(scenario - 1)
    /\ (scenario = 5 /\ last.op = "qubit_allocate") => last.ret = RetNum(1)

C6_Step ==
    /\ last'.op \in {"cx", "cy", "cz"} =>
          /\ cx_count' = cx_count + 1
          /\ UNCHANGED <<qubit_count, ccx_count, free_list>>
    /\ last'.op = "swap" =>
          /\ cx_count' = cx_count + 3
          /\ UNCHANGED <<qubit_count, ccx_count, free_list>>
    /\ last'.op = "ccx" =>
          /\ ccx_count' = ccx_count + 1
          /\ UNCHANGED <<qubit_count, cx_count, free_list>>

ZeroCostOps == {"h", "s", "sadj", "x", "y", "z", "m", "mresetz", "reset",
                "capture_quantum_state", "qubit_is_zero"}

C7_Step ==
    /\ last'.op \in ZeroCostOps =>
          UNCHANGED <<qubit_count, cx_count, ccx_count, free_list>>
    /\ last'.op \in {"m", "mresetz"} =>
          /\ last'.ret.kind = "bool"
          /\ last'.ret.b = FALSE
    /\ last'.op = "capture_quantum_state" =>
          /\ last'.ret.kind = "state"
          /\ last'.ret.amps = <<>>

C7_ZeroCost == [][C7_Step]_vars

\* a measurement made on a counter that already holds tallies
C7_Witness ==
    /\ last.op = "m"
    /\ qubit_count > 0
    /\ cx_count > 0
    /\ ccx_count > 0
    /\ free_list # <<>>

\* The overhead values where the sum of logical_qubits is at most u64::MAX:
\* logical_qubits = qubit_count + ceil(qubit_count / 2) + 1 there, and
\* num_magic_states = ccx_count for every counter, whatever the error
\* budget; for the literal tally (5, 10, 2) they are 9 and 2 on every call.
C8_OverheadInRange ==
    /\ (last.op = "logical_qubits"
          /\ qubit_count + (qubit_count + 1) \div 2 + 1 <= u64_MAX) =>
          /\ last.ret.kind = "num"
          /\ \E k \in 0 .. qubit_count :
                /\ 2 * k >= qubit_count
                /\ 2 * k <= qubit_count + 1
                /\ last.ret.n = qubit_count + k + 1
    /\ last.op = "num_magic_states" => last.ret = RetNum(ccx_count)
    /\ (qubit_count = 5 /\ cx_count = 10 /\ ccx_count = 2) =>
          /\ last.op = "logical_qubits" => last.ret.n = 9
          /\ last.op = "num_magic_states" => last.ret.n = 2

\* C8: logical_qubits = qubit_count + ceil(qubit_count / 2) + 1
\* and num_magic_states = ccx_count for every counter and every error
\* budget; for the literal tally (5, 10, 2) they are 9 and 2 on every call.
C8_Overhead ==
    /\ last.op = "logical_qubits" =>
          /\ last.ret.kind = "num"
          /\ \E k \in 0 .. qubit_count :
                /\ 2 * k >= qubit_count
                /\ 2 * k <= qubit_count + 1
                /\ last.ret.n = qubit_count + k + 1
    /\ last.op = "num_magic_states" => last.ret = RetNum(ccx_count)
    /\ (qubit_count = 5 /\ cx_count = 10 /\ ccx_count = 2) =>
          /\ last.op = "logical_qubits" => last.ret.n = 9
          /\ last.op = "num_magic_states" => last.ret.n = 2

\* the literal tally converted
C8_Witness ==
    /\ qubit_count = 5 /\ cx_count = 10 /\ ccx_count = 2
    /\ last = [op |-> "logical_qubits", ret |-> RetNum(9)]

\* the value returned by the first call of next
FirstCall == r_prev.tag = "NotCalled" /\ r_item.tag # "NotCalled"
\* the range has ended
Ended == r_item = None

\* C9 as stated: the first element of a range started at a lower bound is
\* that bound, and the range with no lower bound yields exactly 750
\* elements before ending.
C9_FirstIsBound ==
    /\ (FirstCall /\ r_lower # None /\ r_item.tag = "Some") => r_item = r_lower
    /\ (Ended /\ r_lower = None) => r_count = 750

\* C9 amended: the first element is the bound with meanPhotons truncated to
\* an integer when the bound's distance is at most 49 (so it is the bound
\* itself exactly when meanPhotons is an integer), the range is empty when
\* the distance is above 49, and the range with no lower bound yields
\* exactly 750 elements before ending.
C9_FirstIsTruncatedBound ==
    /\ (FirstCall /\ r_lower # None /\ r_lower.distance <= 49) =>
          /\ r_item.tag = "Some"
          /\ r_item.distance = r_lower.distance
          /\ r_item.alpha_sq = r_lower.alpha_sq - (r_lower.alpha_sq % 10)
          /\ (r_item = r_lower) <=> (r_lower.alpha_sq % 10 = 0)
    /\ (FirstCall /\ r_lower # None /\ r_lower.distance > 49) => Ended
    /\ (Ended /\ r_lower = None) => r_count = 750

\* the default range has ended after its 750 elements
C9_Witness ==
    /\ r_lower = None
    /\ Ended
    /\ r_count = 750
    /\ r_prev = CodeParameter(49, 300)

\* C10: meanPhotons increases by 1 at a fixed distance until it reaches 30,
\* then distance increases by 2 and meanPhotons restarts at 1; every yielded
\* parameter has an odd distance in 1..49 and an integer meanPhotons in
\* 1..30, for every lower bound.
C10_OrderAndGrid ==
    /\ r_item.tag = "Some" =>
          /\ r_item.distance \in 1 .. 49
          /\ r_item.distance % 2 = 1
          /\ r_item.alpha_sq % 10 = 0
          /\ r_item.alpha_sq \div 10 \in 1 .. 30
    /\ (r_item.tag = "Some" /\ r_prev.tag = "Some") =>
          IF r_prev.alpha_sq < 300
          THEN r_item = CodeParameter(r_prev.distance, r_prev.alpha_sq + 10)
          ELSE r_item = CodeParameter(r_prev.distance + 2, 10)


\* C11: for every lower bound the range is seeded with, next returns none
\* after finitely many calls, and once it has returned none it returns none
\* on every later call.
C11_Finite ==
    /\ <>Ended
    /\ [][Ended => Ended']_vars

\* C12: physical_qubits returns base + 2 x (3 x (logicalQubits +
\* factoryCopies x 5) - 1), with base the engine's total, logicalQubits the
\* value of the overhead's logical_qubits and factoryCopies 0 when the
\* factory part is absent; the routing term is never negative and the
\* result is never below base.
C12_PhysicalQubits ==
    e_last.op = "physical_qubits" =>
        LET base == e_result.physical_qubits
            factoryCopies == IF e_result.factory_part = None THEN 0
                             ELSE e_result.factory_part.copies
        IN  /\ e_last.out.tag = "Ok"
            /\ e_last.out.v >= base
            /\ \E logicalQubits \in
                      { o.v : o \in { r \in LogicalCounts_logical_qubits(qubit_count) :
                                          r.tag = "Ok" } } :
                  e_last.out.v - base
                      = 2 * (3 * (logicalQubits + factoryCopies * 5) - 1)

\* The same where nothing overflows: for a counter whose logical qubits are
\* qubit_count + ceil(qubit_count / 2) + 1 and a result whose sum
\* base + 2 x (3 x (logicalQubits + factoryCopies x 5) - 1) is at most
\* u64::MAX, physical_qubits returns that sum in every build.
C12_PhysicalQubitsInRange ==
    e_last.op = "physical_qubits" =>
        LET base == e_result.physical_qubits
            logicalQubits == qubit_count + (qubit_count + 1) \div 2 + 1
            factoryCopies == IF e_result.factory_part = None THEN 0
                             ELSE e_result.factory_part.copies
            routing == 2 * (3 * (logicalQubits + factoryCopies * 5) - 1)
        IN  base + routing <= u64_MAX =>
                /\ e_last.out = Ok(base + routing)
                /\ routing >= 4

\* physical_qubits evaluated on a result with two factory copies
C12_Witness ==
    /\ e_last.op = "physical_qubits"
    /\ e_result.factory_part # None
    /\ e_result.factory_part.copies = 2
    /\ qubit_count > 0

\* the three parameters compared and the orderings expected of them
CmpDone(k) == Len(c_result) >= k
CmpExpected(p1, p2) ==
    LET n1 == 2 * p1.distance - 1
        n2 == 2 * p2.distance - 1
        t1 == 500 * p1.distance
        t2 == 500 * p2.distance
    IN  IF n1 < n2 THEN "Less"
        ELSE IF n1 > n2 THEN "Greater"
        ELSE IF t1 < t2 THEN "Less"
        ELSE IF t1 > t2 THEN "Greater"
        ELSE "Equal"

\* C13: code_parameter_cmp orders by (physical_qubits, logical_cycle_time)
\* ascending, with 2 x distance - 1 primary and 500 x distance the
\* tie-break; over the parameter space it is reflexive, transitive, and
\* cmp(p1, p2) is the reverse of cmp(p2, p1).
C13_TotalPreorder ==
    /\ CmpDone(1) => c_result[1] = "Equal"
    /\ CmpDone(2) => c_result[2] = CmpExpected(c_args.p[1], c_args.p[2])
    /\ CmpDone(3) => c_result[3] = Ordering_reverse(c_result[2])
    /\ CmpDone(5) =>
          /\ c_result[4] = CmpExpected(c_args.p[2], c_args.p[3])
          /\ (c_result[2] # "Greater" /\ c_result[4] # "Greater") =>
                /\ c_result[5] # "Greater"
                /\ ("Less" \in {c_result[2], c_result[4]}) => c_result[5] = "Less"

\* all five comparisons made, of three parameters in strictly ascending order
C13_Witness ==
    /\ CmpDone(5)
    /\ c_result[2] = "Less"
    /\ c_result[4] = "Less"

\* C14: once the counter is frozen, logical_qubits, logical_depth and
\* num_magic_states leave qubit_count, cx_count, ccx_count and the free
\* list unchanged, so the value an evaluation returns is the one any later
\* evaluation of the same conversion returns.
OverheadOps == {"logical_qubits", "logical_depth", "num_magic_states"}
OverheadValues(op, q, c, t) ==
    IF op = "logical_qubits"
    THEN { o.v : o \in { r \in LogicalCounts_logical_qubits(q) : r.tag = "Ok" } }
    ELSE IF op = "logical_depth" THEN {LogicalCounts_logical_depth(c, t)}
    ELSE {t}

C14_Step ==
    phase = "frozen" =>
        /\ UNCHANGED <<qubit_count, cx_count, ccx_count, free_list>>
        /\ last'.op \in OverheadOps
        /\ last'.ret.kind = "num" =>
              /\ phase' = "frozen"
              /\ last'.ret.n \in OverheadValues(last'.op, qubit_count, cx_count, ccx_count)
              /\ last'.ret.n \in OverheadValues(last'.op, qubit_count', cx_count', ccx_count')

C14_ReadOnly == [][C14_Step]_vars

\* a conversion evaluated right after another one, on a counter with gates
C14_Witness ==
    /\ phase = "frozen"
    /\ last.op = "num_magic_states"
    /\ ccx_count > 0
    /\ cx_count > 0
    /\ qubit_count > 0

\* C15: from every state, each operation of the accumulator completes
\* without an error or abort, also when a tally or qubit_count is at the
\* largest value of its integer type.
C15_NeverFails == last.ret.kind # "panic"

\* the indices released and not yet handed out again
Freed == { free_list[i] : i \in 1 .. Len(free_list) }
Indices == 0 .. qubit_count - 1

\* C16: from an empty counter and with a driver that releases only indices
\* it holds, every index below qubit_count is exactly one of free (in the
\* free list, once) or allocated, and qubit_allocate never returns an index
\* that is currently allocated.
C16_Partition ==
    /\ \A i \in Indices : (i \in Freed) # (i \in allocated)
    /\ Freed \cup allocated = Indices
    /\ \A i \in 1 .. Len(free_list), j \in 1 .. Len(free_list) :
          free_list[i] = free_list[j] => i = j

C16_AllocateStep == last'.op = "qubit_allocate" => last'.ret.n \notin allocated

C16_FreeOrAllocated ==
    /\ [](C16_Partition)
    /\ [][C16_AllocateStep]_vars

\* a released index was handed out again while another index is still free
C16_Witness ==
    /\ last.op = "qubit_allocate"
    /\ qubit_count = 3
    /\ Len(free_list) = 1
    /\ Cardinality(allocated) = 2
    /\ last.ret.n < 2

\* C17: from an empty counter and with a driver that releases only indices
\* it holds, qubit_count is the largest number of qubits held at the same
\* time so far, and it grows only when every index below it is allocated.
C17_GrowStep == qubit_count' > qubit_count => allocated = Indices

C17_HighWaterMark ==
    /\ [](qubit_count = max_live)
    /\ [][C17_GrowStep]_vars

\* fewer qubits are held than were held at some earlier time
C17_Witness ==
    /\ max_live = 3
    /\ Cardinality(allocated) = 2
    /\ qubit_count = 3
    /\ last.op = "qubit_allocate"

\* C18: in the catalog the entry with the lower error probability has the
\* strictly larger normalized volume, so all volumes differ and Ord agrees
\* with equality; the first factory find_factories returns is the entry
\* with the largest error probability not exceeding the target, and a
\* returned sequence is never empty.
C18_NoDominated ==
    \A i \in CatalogIds, j \in CatalogIds :
        i # j =>
            /\ ProbLt(factories[i].error_probability, factories[j].error_probability)
                  => normalized_volume(factories[i]) > normalized_volume(factories[j])
            /\ normalized_volume(factories[i]) # normalized_volume(factories[j])
            /\ factory_cmp(factories[i], factories[j]) # "Equal"

C18_FirstIsCheapest ==
    /\ C18_NoDominated
    /\ Returned =>
          /\ ff_result.list # <<>>
          /\ ProbLe(ff_result.list[1].error_probability, ff_target)
          /\ \A k \in CatalogIds :
                ProbLe(factories[k].error_probability, ff_target)
                   => ProbLe(factories[k].error_probability,
                             ff_result.list[1].error_probability)

\* a target equal to the error probability of an entry in mid-catalog
C18_Witness ==
    /\ Returned
    /\ ff_target = factories[4].error_probability
    /\ ff_result.list[1] = factories[4]

\* C19: the result of code_parameter_cmp is the comparison of the two
\* distances, whatever the meanPhotons and the qubit: equal distances
\* compare Equal, the cycle-time tie-break never changes the result, and
\* the Equal fallback for uncomputable quantities is never taken.
C19_DistanceOnly ==
    CmpDone(2) =>
        LET p1 == c_args.p[1]
            p2 == c_args.p[2]
        IN  /\ c_result[2] = (IF p1.distance < p2.distance THEN "Less"
                              ELSE IF p1.distance > p2.distance THEN "Greater"
                              ELSE "Equal")
            /\ p1.distance = p2.distance => c_result[2] = "Equal"
            /\ \A qb \in Qubits, a1 \in CmpAlphaSq, a2 \in CmpAlphaSq :
                  code_parameter_cmp(qb, CodeParameter(p1.distance, a1),
                                     CodeParameter(p2.distance, a2)) = c_result[2]
            /\ c_result[2] = Ord_cmp(RepetitionCode_physical_qubits(p1).v,
                                     RepetitionCode_physical_qubits(p2).v)
            /\ cmp_all_ok(c_args.qubit, p1, p2)

\* two parameters of one distance and different meanPhotons were compared
C19_Witness ==
    /\ CmpDone(2)
    /\ c_args.p[1].distance = c_args.p[2].distance
    /\ c_args.p[1].alpha_sq # c_args.p[2].alpha_sq

\* C20: on a result whose factory part is absent every operation completes:
\* physical_qubits counts 0 factory copies, total_error has a magic-state
\* contribution of 0, and the report, written to a sink that takes it, is
\* rendered with all its fields and a factory copy count of 0.
ReportLabels == {"# physical qubits", "runtime", "total error", "code distance",
                 "#factories", "factories distance", "factory fraction"}

C20_AbsentFactoryPart ==
    (e_result # None /\ e_result.factory_part = None) =>
        /\ e_last.out.tag # "panic"
        /\ e_last.op = "physical_qubits" =>
              e_last.out.v = e_result.physical_qubits
                  + 2 * (3 * logical_qubits_returned(qubit_count).v - 1)
        /\ e_last.op = "total_error" => e_last.out.v.magic_states = Zero
        /\ (e_last.op = "fmt" /\ e_last.out.tag # "Err") =>
              /\ { e_last.out.lines[i][1] : i \in 1 .. Len(e_last.out.lines) }
                    = ReportLabels
              /\ \E i \in 1 .. Len(e_last.out.lines) :
                    e_last.out.lines[i] = <<"#factories", 0>>

=============================================================================
